---------------------------- MODULE Spec2Model ----------------------------
(***************************************************************************)
(* Model of src/src/cancel-source.js: cancel sources, their tokens, the    *)
(* once() guard, invokeListener and the setTimeout queue it defers errors  *)
(* to.  JavaScript runs one call stack to completion; listeners are user   *)
(* code that may call back into the library, so the call stack is explicit *)
(* state: a forEach frame is a notification loop in progress, a listener   *)
(* frame is a user callback that has been entered and has not returned.    *)
(***************************************************************************)
EXTENDS Naturals, Sequences, FiniteSets

\* ------------------------------------------------------------------ bounds
\* library calls user code may make (create, cancel, subscribe, unsubscribe)
\* when it may do anything
MaxOps == 4
\* the same, when it works with a single source and no parent tokens
FlatOps == 6
\* the same, when it builds hierarchies of sources
TreeOps == 5
\* sources a hierarchy is built of
TreePairs == 3
\* library calls user code may make in the runs checked for progress
FairOps == 5
\* the same, when it also passes falsy values to cancel
ArgOps == 5
\* the same, when it builds a child of two parents with a common ancestor
DiamondOps == 6
\* the same, when it builds a chain of sources with two listener functions
ChainOps == 6
\* the same, when it subscribes cancel functions of one source to another
LinkOps == 5

\* ------------------------------------------------------------------ values
\* JavaScript values that reach the library, as tagged records.
Null == [kind |-> "null", id |-> 0]
Undefined == [kind |-> "undefined", id |-> 0]
Reason(i) == [kind |-> "error", id |-> i]
Reasons == {Reason(1), Reason(2)}
\* what a caller may pass to cancel: a reason, or nothing
CancelArgs == Reasons \cup {Undefined}
\* the object `new Error('Operation Canceled')` allocated by pair p's cancel
NewError(p) == [kind |-> "default", id |-> p]
\* an error thrown by the k-th listener invocation of the run
Thrown(k) == [kind |-> "thrown", id |-> k]
\* the TypeError of calling a value that is not a function
TypeError(k) == [kind |-> "TypeError", id |-> k]
\* JavaScript truthiness of the values above
Truthy(v) == v.kind \notin {"null", "undefined"}
\* a || b
Or(a, b) == IF Truthy(a) THEN a ELSE b

\* listener values: user functions, the cancel function of a pair, a non-callable
Fn(i) == [kind |-> "user", id |-> i]
CancelOf(p) == [kind |-> "cancel", id |-> p]
Garbage == [kind |-> "garbage", id |-> 0]
UserFns == {Fn(1), Fn(2)}

\* the pair created at module load for emptyToken; its cancel is never exported
EmptyPair == 1

VARIABLES
    data,      \* data[p]: the record {reason, listeners} closed over by pair p
    called,    \* called[p]: once() has nulled pair p's callback
    stack,     \* call stack, innermost frame last
    timers,    \* errors queued by setTimeout, oldest first
    subs,      \* every subscription object made so far, in order of the calls
    parents,   \* parents[p]: the parentTokens pair p was created with
    nops,      \* library calls made by the environment so far
    log,       \* history: every listener invocation made by invokeListener
    fired,     \* history: per pair, the first cancel invocation
    born,      \* history: per pair, data.reason when its create call returned
    raised,    \* history: errors re-thrown by timer callbacks, in order
    escaped,   \* history: exceptions that left cancel/subscribe synchronously
    env        \* what user code does in this run (its limits, never changed)

vars == <<data, called, stack, timers, subs, parents, nops, log, fired, born,
          raised, escaped, env>>

\* user code that may do anything the interface allows
AnyCode == [ops |-> MaxOps, pairs |-> MaxOps, parents |-> 2, fns |-> 2,
            garbage |-> TRUE, links |-> TRUE, empty |-> TRUE, unsub |-> TRUE,
            reenter |-> TRUE, falsy |-> FALSE, shape |-> <<>>]
\* user code working with one source: listeners, no hierarchy
FlatCode == [ops |-> FlatOps, pairs |-> 1, parents |-> 0, fns |-> 2,
             garbage |-> TRUE, links |-> FALSE, empty |-> FALSE, unsub |-> TRUE,
             reenter |-> TRUE, falsy |-> FALSE, shape |-> <<>>]
\* user code building hierarchies, with one listener function
TreeCode == [ops |-> TreeOps, pairs |-> TreePairs, parents |-> 2, fns |-> 1,
             garbage |-> FALSE, links |-> TRUE, empty |-> FALSE, unsub |-> TRUE,
             reenter |-> FALSE, falsy |-> FALSE, shape |-> <<>>]

\* user code with a parent and a child source and passive listeners
FairCode == [ops |-> FairOps, pairs |-> 2, parents |-> 1, fns |-> 1,
             garbage |-> TRUE, links |-> FALSE, empty |-> FALSE, unsub |-> TRUE,
             reenter |-> FALSE, falsy |-> FALSE, shape |-> <<>>]
\* user code with a parent and a child source that calls cancel with a
\* reason, with nothing, or with null
ArgsCode == [ops |-> ArgOps, pairs |-> 2, parents |-> 1, fns |-> 1,
             garbage |-> FALSE, links |-> FALSE, empty |-> FALSE, unsub |-> TRUE,
             reenter |-> TRUE, falsy |-> TRUE, shape |-> <<>>]
\* user code building one hierarchy, with passive listeners: a source, two
\* children of it (one may name it twice), and a child of those children
DiamondCode == [ops |-> DiamondOps, pairs |-> 4, parents |-> 2, fns |-> 1,
                garbage |-> FALSE, links |-> FALSE, empty |-> FALSE,
                unsub |-> TRUE, reenter |-> FALSE, falsy |-> FALSE,
                shape |-> << {<<>>}, {<<2>>}, {<<2>>, <<2, 2>>},
                             {<<3, 4>>, <<4, 3>>, <<3, 3>>} >>]
\* user code building a chain, with passive listeners: a source, a child of
\* it, and a child of that child
ChainCode == [ops |-> ChainOps, pairs |-> 3, parents |-> 1, fns |-> 2,
              garbage |-> FALSE, links |-> FALSE, empty |-> FALSE,
              unsub |-> TRUE, reenter |-> FALSE, falsy |-> FALSE,
              shape |-> << {<<>>}, {<<2>>}, {<<3>>} >>]
\* user code with up to three sources, each created from at most one token,
\* that subscribes their cancel functions as listeners itself
LinkCode == [ops |-> LinkOps, pairs |-> 3, parents |-> 1, fns |-> 1,
             garbage |-> FALSE, links |-> TRUE, empty |-> FALSE, unsub |-> TRUE,
             reenter |-> FALSE, falsy |-> FALSE, shape |-> <<>>]

Pairs == 1..Len(data)
\* (mutant) the module exports the whole pair made at load, cancel included
ExposedAll == Pairs

\* pairs whose cancel function the environment holds
Exposed == Pairs \ {EmptyPair}

\* ------------------------------------------------------------- helpers
Without(s, l) == SelectSeq(s, LAMBDA el : el # l)
Last(s) == s[Len(s)]
Pop(s) == SubSeq(s, 1, Len(s) - 1)

\* fired[p] before pair p's cancel has run
NoFire == [set |-> FALSE, arg |-> Null, batch |-> <<>>, by |-> 0,
           again |-> FALSE, late |-> Null]

\* stack frames: a forEach loop of pair p's cancel over arr, about to visit
\* arr[idx]; a user listener entered by the k-th invocation of the run.
\* sub is the subscription (its index in subs) the call will return.
ForEachFrame(p, arr, r) ==
    [kind |-> "forEach", pair |-> p, arr |-> arr, idx |-> 1, reason |-> r,
     inv |-> 0, sub |-> 0]
ListenerFrame(p, k) ==
    [kind |-> "listener", pair |-> p, arr |-> <<>>, idx |-> 0, reason |-> Null,
     inv |-> k, sub |-> 0]

\* the state the library functions read and write, with the histories they feed
Heap == [data |-> data, called |-> called, stack |-> stack, timers |-> timers,
         log |-> log, fired |-> fired, escaped |-> escaped]

\* ------------------------------------------------------- library functions
\* (mutant) no try/catch: the error leaves invokeListener
CaughtRethrown(h, error) == [h EXCEPT !.escaped = @ + 1]

\* (mutant) an empty catch block: the error is dropped
CaughtSwallowed(h, error) == h

\* invokeListener's catch block: setTimeout(() => { throw error })
Caught(h, error) == [h EXCEPT !.timers = Append(@, error)]

\* (mutant) the loop walks the array from its end
forEachReversed(h, p, arr, r) ==
    IF arr = <<>> THEN h
    ELSE [h EXCEPT !.stack = Append(@, ForEachFrame(p,
              [i \in 1..Len(arr) |-> arr[Len(arr) + 1 - i]], r))]

\* (mutant) the loop is queued behind the calls in progress instead of
\* running inside the call that starts it
forEachQueued(h, p, arr, r) ==
    IF arr = <<>> THEN h
    ELSE [h EXCEPT !.stack = <<ForEachFrame(p, arr, r)>> \o @]

\* Array.prototype.forEach over the array object that is data.listeners at
\* the call.  unsubscribe replaces data.listeners by a new array and push is
\* only reached while data.reason is null, so the array being walked is
\* never changed under the loop: the frame keeps it.  An empty array needs
\* no frame.
forEach(h, p, arr, r) ==
    IF arr = <<>> THEN h
    ELSE [h EXCEPT !.stack = Append(@, ForEachFrame(p, arr, r))]

\* (mutant) the reason passed in is dropped: the default is always committed
cancelBodyDefault(h, c, arg, by) ==
    LET h1 == [h EXCEPT !.data[c].reason = NewError(c),
                        !.fired[c] = [set |-> TRUE, arg |-> arg,
                                      batch |-> h.data[c].listeners, by |-> by,
                                      again |-> @.set, late |-> @.arg]]
    IN forEach(h1, c, h1.data[c].listeners, h1.data[c].reason)

\* (mutant) the argument is committed as it is: data.reason = reason
cancelBodyRaw(h, c, arg, by) ==
    LET h1 == [h EXCEPT !.data[c].reason = arg,
                        !.fired[c] = [set |-> TRUE, arg |-> arg,
                                      batch |-> h.data[c].listeners, by |-> by,
                                      again |-> @.set, late |-> @.arg]]
    IN forEach(h1, c, h1.data[c].listeners, h1.data[c].reason)

\* (mutant) the listeners are dropped once they have been handed to the loop
cancelBodyClears(h, c, arg, by) ==
    LET r == Or(arg, NewError(c))
        h1 == [h EXCEPT !.data[c] = [reason |-> r, listeners |-> <<>>],
                        !.fired[c] = [set |-> TRUE, arg |-> arg,
                                      batch |-> h.data[c].listeners, by |-> by,
                                      again |-> @.set, late |-> @.arg]]
    IN forEach(h1, c, h.data[c].listeners, r)

\* the arrow function wrapped by once(): commit the reason, notify
cancelBody(h, c, arg, by) ==
    LET r == Or(arg, NewError(c))
        h1 == [h EXCEPT !.data[c].reason = r,
                        !.fired[c] = [set |-> TRUE, arg |-> arg,
                                      batch |-> h.data[c].listeners, by |-> by,
                                      again |-> @.set, late |-> @.arg]]
    IN forEach(h1, c, h1.data[c].listeners, h1.data[c].reason)

\* (mutant) no guard: every call runs the callback
onceUnguarded(h, c, arg, by) ==
    cancelBody([h EXCEPT !.called[c] = TRUE], c, arg, by)

\* (mutant) the parents are subscribed to the callback itself, and only the
\* function returned to the caller is wrapped by once()
onceOnlyReturned(h, c, arg, by) ==
    IF h.called[c] /\ by = 0
    THEN [h EXCEPT !.fired[c].again = TRUE, !.fired[c].late = arg]
    ELSE cancelBody([h EXCEPT !.called[c] = TRUE], c, arg, by)

\* once(callback): the callback is nulled before it runs, so every later
\* call, a re-entrant one included, does nothing
once(h, c, arg, by) ==
    IF h.called[c] THEN [h EXCEPT !.fired[c].again = TRUE, !.fired[c].late = arg]
    ELSE cancelBody([h EXCEPT !.called[c] = TRUE], c, arg, by)

\* how the call listener(reason) ends, as far as the library decides it
Outcome(l) ==
    CASE l.kind = "garbage" -> "threw"
      [] l.kind = "cancel" -> "returned"
      [] OTHER -> "entered"

\* (mutant) the call is made outside the try block
invokeListenerUnguarded(h, p, l, r, via) ==
    LET k == Len(h.log) + 1
        h1 == [h EXCEPT !.log = Append(@, [pair |-> p, fn |-> l, reason |-> r,
                                           via |-> via, out |-> Outcome(l)])]
    IN CASE l.kind = "garbage" -> [h1 EXCEPT !.escaped = @ + 1]
         [] l.kind = "cancel" -> once(h1, l.id, r, p)
         [] OTHER -> [h1 EXCEPT !.stack = Append(@, ListenerFrame(p, k))]

\* what `listener(reason)` does when entered from pair p's invokeListener:
\* a non-function throws a TypeError at the call, a cancel function runs its
\* once() wrapper, a user function is entered (its frame is pushed).
invokeListener(h, p, l, r, via) ==
    LET k == Len(h.log) + 1
        h1 == [h EXCEPT !.log = Append(@, [pair |-> p, fn |-> l, reason |-> r,
                                           via |-> via, out |-> Outcome(l)])]
    IN CASE l.kind = "garbage" -> Caught(h1, TypeError(k))
         [] l.kind = "cancel" -> once(h1, l.id, r, p)
         [] OTHER -> [h1 EXCEPT !.stack = Append(@, ListenerFrame(p, k))]

isCanceled(p) == Truthy(data[p].reason)

\* "ok" when it returns, else the value it throws
throwIfCanceled(p) == IF Truthy(data[p].reason) THEN data[p].reason ELSE Null

\* (mutant) the listener of a canceled token is invoked and also kept
subscribeKeeps(h, p, l) ==
    LET h1 == [h EXCEPT !.data[p].listeners = Append(@, l)]
    IN IF Truthy(h.data[p].reason)
       THEN invokeListener(h1, p, l, h.data[p].reason, "subscribe")
       ELSE h1

\* token.subscribe: the heap after the call has run as far as it can without
\* user code (the subscription object is handed out when the call returns)
subscribe(h, p, l) ==
    IF Truthy(h.data[p].reason)
    THEN invokeListener(h, p, l, h.data[p].reason, "subscribe")
    ELSE [h EXCEPT !.data[p].listeners = Append(@, l)]

\* the subscription object subscribe returns
Subscription(h, p, l) ==
    [pair |-> p, fn |-> l, live |-> ~Truthy(h.data[p].reason)]

\* (mutant) the filtered array is not stored back
unsubscribeDropped(h, s) == h

\* (mutant) the entries are removed from the array itself, which a running
\* loop is walking
unsubscribeInPlace(h, s) ==
    IF s.live
    THEN [h EXCEPT !.data[s.pair].listeners = Without(@, s.fn),
                   !.stack = [n \in 1..Len(@) |->
                                 IF @[n].kind = "forEach" /\ @[n].pair = s.pair
                                 THEN [@[n] EXCEPT !.arr = Without(@, s.fn)]
                                 ELSE @[n]]]
    ELSE h

\* (mutant) only the first entry equal to the listener is removed
unsubscribeFirst(h, s) ==
    LET q == h.data[s.pair].listeners
        at == {n \in 1..Len(q) : q[n] = s.fn}
    IN IF s.live /\ at # {}
       THEN LET n == CHOOSE n \in at : \A m \in at : n <= m
            IN [h EXCEPT !.data[s.pair].listeners =
                            SubSeq(q, 1, n - 1) \o SubSeq(q, n + 1, Len(q))]
       ELSE h

\* subscription.unsubscribe()
unsubscribe(h, s) ==
    IF s.live
    THEN [h EXCEPT !.data[s.pair].listeners = Without(@, s.fn)]
    ELSE h

\* (mutant) only parents that are still pending are subscribed to
RECURSIVE linkParentsPending(_, _, _, _)
linkParentsPending(h, c, ps, i) ==
    IF i > Len(ps) THEN h
    ELSE linkParentsPending(
             IF Truthy(h.data[ps[i]].reason) THEN h
             ELSE subscribe(h, ps[i], CancelOf(c)), c, ps, i + 1)

\* (mutant) the link is made both ways: the parent's cancel is subscribed to
\* the new token as well
RECURSIVE linkParentsBothWays(_, _, _, _)
linkParentsBothWays(h, c, ps, i) ==
    IF i > Len(ps) THEN h
    ELSE linkParentsBothWays(
             subscribe(subscribe(h, ps[i], CancelOf(c)), c, CancelOf(ps[i])),
             c, ps, i + 1)

\* parentTokens.map((token) => token.subscribe(cancel)), from the i-th on
RECURSIVE linkParents(_, _, _, _)
linkParents(h, c, ps, i) ==
    IF i > Len(ps) THEN h
    ELSE linkParents(subscribe(h, ps[i], CancelOf(c)), c, ps, i + 1)

\* createCancelSource(...parentTokens)
createCancelSource(h, ps) ==
    LET c == Len(h.data) + 1
        h1 == [h EXCEPT !.data = Append(@, [reason |-> Null, listeners |-> <<>>]),
                        !.called = Append(@, FALSE),
                        !.fired = Append(@, NoFire)]
    IN linkParents(h1, c, ps, 1)

\* ------------------------------------------------------------ the machine
Start ==
    \* line 5: emptyToken = createCancelSource().token, before anything else
    /\ data = <<[reason |-> Null, listeners |-> <<>>]>>
    /\ called = <<FALSE>>
    /\ stack = <<>>
    /\ timers = <<>>
    /\ subs = <<>>
    /\ parents = << <<>> >>
    /\ nops = 0
    /\ log = <<>>
    /\ fired = <<NoFire>>
    /\ born = <<Null>>
    /\ raised = <<>>
    /\ escaped = 0

Init == Start /\ env = AnyCode
InitFlat == Start /\ env = FlatCode
InitTree == Start /\ env = TreeCode
InitFair == Start /\ env = FairCode
InitArgs == Start /\ env = ArgsCode
InitDiamond == Start /\ env = DiamondCode
InitChain == Start /\ env = ChainCode
InitLink == Start /\ env = LinkCode

\* user code is running: the main script, or a listener that was entered
UserCode ==
    IF stack = <<>> THEN TRUE ELSE Last(stack).kind = "listener" /\ env.reenter

\* an exception leaving the library unwinds to the user code that called it
RECURSIVE Unwind(_)
Unwind(st) ==
    IF st = <<>> THEN st
    ELSE IF Last(st).kind = "listener" THEN st ELSE Unwind(Pop(st))

\* the heap's part of the next state
Commit(h) ==
    /\ data' = h.data
    /\ called' = h.called
    /\ timers' = h.timers
    /\ log' = h.log
    /\ fired' = h.fired
    /\ escaped' = h.escaped
    /\ stack' = IF h.escaped # escaped THEN Unwind(h.stack) ELSE h.stack

\* a subscription object s with its history: who made the call (user code,
\* or create for a parent token), whether the call has returned it to user
\* code, how often unsubscribe was called on it, whether that was done while
\* its pair was pending (early), whether any unsubscribe of its listener
\* returned, after it was made, while its pair was pending (gone), and the
\* listener invocation that last called unsubscribe on it (by; 0 when the
\* main script did, or nobody)
Handle(s, own, held) ==
    [pair |-> s.pair, fn |-> s.fn, live |-> s.live, own |-> own, held |-> held,
     used |-> 0, early |-> FALSE, gone |-> FALSE, by |-> 0]

\* the subscription a popped frame was holding is returned to its caller
Handed(f) == IF f.sub = 0 THEN subs ELSE [subs EXCEPT ![f.sub].held = TRUE]

\* tokens user code passes around
Tokens == IF env.empty THEN Pairs ELSE Exposed
\* argument lists of create: no parent, one, or two (the same token twice
\* too); user code building a given hierarchy passes what that prescribes
TokenSeqs ==
    IF env.shape = <<>> THEN UNION {[1..n -> Tokens] : n \in 0..env.parents}
    ELSE IF Len(data) <= Len(env.shape) THEN env.shape[Len(data)] ELSE {}

\* CancelSource.create(...ps); the subscriptions it makes are dropped
Create(ps) ==
    /\ UserCode
    /\ nops < env.ops
    /\ Len(data) < env.pairs + 1
    /\ LET h == createCancelSource(Heap, ps)
           c == Len(data) + 1
       IN /\ Commit(h)
          /\ born' = Append(born, h.data[c].reason)
          /\ subs' = subs \o [i \in 1..Len(ps) |->
                        Handle(Subscription(Heap, ps[i], CancelOf(c)), "create", FALSE)]
    /\ parents' = Append(parents, ps)
    /\ nops' = nops + 1
    /\ UNCHANGED <<raised, env>>

\* source.cancel(arg), called by user code
Cancel(c, arg) ==
    /\ UserCode
    /\ nops < env.ops
    /\ Commit(once(Heap, c, arg, 0))
    /\ nops' = nops + 1
    /\ UNCHANGED <<subs, parents, born, raised, env>>

\* token.subscribe(l) on pair p's token, called by user code: it returns at
\* once, or when the frame it pushed (a listener, a cascade) is popped
Subscribe(p, l) ==
    /\ UserCode
    /\ nops < env.ops
    /\ LET h == subscribe(Heap, p, l)
           s == Subscription(Heap, p, l)
       IN IF Len(h.stack) > Len(stack)
          THEN /\ Commit([h EXCEPT !.stack[Len(stack) + 1].sub = Len(subs) + 1])
               /\ subs' = Append(subs, Handle(s, "user", FALSE))
          ELSE /\ Commit(h)
               /\ subs' = Append(subs, Handle(s, "user", h.escaped = escaped))
    /\ nops' = nops + 1
    /\ UNCHANGED <<parents, born, raised, env>>

\* subs[i].unsubscribe(), called by user code
Unsubscribe(i) ==
    /\ UserCode
    /\ nops < env.ops
    /\ env.unsub
    /\ subs[i].held
    /\ Commit(unsubscribe(Heap, [pair |-> subs[i].pair, fn |-> subs[i].fn,
                                 live |-> subs[i].live]))
    /\ subs' = [j \in 1..Len(subs) |->
                  [subs[j] EXCEPT
                     !.used = IF j = i THEN @ + 1 ELSE @,
                     !.by = IF j # i THEN @
                            ELSE IF stack = <<>> THEN 0 ELSE Last(stack).inv,
                     !.early = \/ @
                               \/ /\ j = i
                                  /\ subs[i].live
                                  /\ ~Truthy(data[subs[i].pair].reason),
                     !.gone = \/ @
                              \/ /\ subs[i].live
                                 /\ ~Truthy(data[subs[i].pair].reason)
                                 /\ subs[j].pair = subs[i].pair
                                 /\ subs[j].fn = subs[i].fn]]
    /\ nops' = nops + 1
    /\ UNCHANGED <<parents, born, raised, env>>

\* one turn of a forEach loop: invokeListener(reason)(arr[idx])
Notify ==
    /\ stack # <<>>
    /\ Last(stack).kind = "forEach"
    /\ Last(stack).idx <= Len(Last(stack).arr)
    /\ LET f == Last(stack)
           h == [Heap EXCEPT !.stack[Len(stack)].idx = f.idx + 1]
       IN Commit(invokeListener(h, f.pair, f.arr[f.idx], f.reason, "cancel"))
    /\ UNCHANGED <<subs, parents, nops, born, raised, env>>

\* a forEach loop has visited every element: the cancel call returns
ForEachDone ==
    /\ stack # <<>>
    /\ Last(stack).kind = "forEach"
    /\ Last(stack).idx > Len(Last(stack).arr)
    /\ stack' = Pop(stack)
    /\ subs' = Handed(Last(stack))
    /\ UNCHANGED <<data, called, timers, parents, nops, log, fired, born,
                   raised, escaped, env>>

\* a user listener returns normally
ListenerReturn ==
    /\ stack # <<>>
    /\ Last(stack).kind = "listener"
    /\ stack' = Pop(stack)
    /\ log' = [log EXCEPT ![Last(stack).inv].out = "returned"]
    /\ subs' = Handed(Last(stack))
    /\ UNCHANGED <<data, called, timers, parents, nops, fired, born,
                   raised, escaped, env>>

\* a user listener throws: invokeListener's catch block runs
ListenerThrow ==
    /\ stack # <<>>
    /\ Last(stack).kind = "listener"
    /\ LET k == Last(stack).inv
           h == Caught([Heap EXCEPT !.stack = Pop(stack), !.log[k].out = "threw"],
                       Thrown(k))
       IN /\ Commit(h)
          /\ subs' = IF h.escaped # escaped THEN subs ELSE Handed(Last(stack))
    /\ UNCHANGED <<parents, nops, born, raised, env>>

\* the event loop runs the oldest timer callback: throw error
Timeout ==
    /\ stack = <<>>
    /\ timers # <<>>
    /\ raised' = Append(raised, Head(timers))
    /\ timers' = Tail(timers)
    /\ UNCHANGED <<data, called, stack, subs, parents, nops, log, fired, born,
                   escaped, env>>

\* user functions are interchangeable: the second is used after the first
UsedFns == {subs[i].fn : i \in 1..Len(subs)}
FreshFns == {f \in UserFns : f.id <= env.fns /\ (f.id = 1 \/ Fn(f.id - 1) \in UsedFns)}
\* what user code passes to cancel
Args == IF env.falsy THEN CancelArgs \cup {Null} ELSE CancelArgs
\* what user code passes to subscribe
Listeners ==
    FreshFns \cup (IF env.garbage THEN {Garbage} ELSE {})
             \cup (IF env.links THEN {CancelOf(c) : c \in Exposed} ELSE {})

Next ==
    \/ \E ps \in TokenSeqs : Create(ps)
    \/ \E c \in Exposed, arg \in Args : Cancel(c, arg)
    \/ \E p \in Tokens, l \in Listeners : Subscribe(p, l)
    \/ \E i \in 1..Len(subs) : Unsubscribe(i)
    \/ Notify
    \/ ForEachDone
    \/ ListenerReturn
    \/ ListenerThrow
    \/ Timeout

Spec == Init /\ [][Next]_vars
SpecFlat == InitFlat /\ [][Next]_vars
SpecTree == InitTree /\ [][Next]_vars
SpecArgs == InitArgs /\ [][Next]_vars
SpecDiamond == InitDiamond /\ [][Next]_vars
SpecChain == InitChain /\ [][Next]_vars
SpecLink == InitLink /\ [][Next]_vars
\* the event loop: a loop goes on, a listener that was entered ends, and a
\* queued timer callback is run once the stack is empty
SpecFair ==
    /\ InitFair /\ [][Next]_vars
    /\ WF_vars(Notify) /\ WF_vars(ForEachDone)
    /\ WF_vars(ListenerReturn \/ ListenerThrow)
    /\ WF_vars(Timeout)

\* ------------------------------------------------- what the claims speak of
\* pair p's cancel is running its notification loop
OnStack(p) ==
    \E i \in 1..Len(stack) : stack[i].kind = "forEach" /\ stack[i].pair = p
\* pair p's first cancel invocation has returned
Returned(p) == fired[p].set /\ ~OnStack(p)
\* the invocations made by pair p's cancel, in order
Notified(p) == SelectSeq(log, LAMBDA e : e.pair = p /\ e.via = "cancel")
\* the invocations made by subscribe calls on canceled tokens, in order
Immediate == SelectSeq(log, LAMBDA e : e.via = "subscribe")
FnsOf(es) == [i \in 1..Len(es) |-> es[i].fn]
IsPrefix(a, b) == Len(a) <= Len(b) /\ a = SubSeq(b, 1, Len(a))
\* the listeners subscribed to pair p's token while it was pending and not
\* unsubscribed before its cancellation, in the order of the subscribe calls
Subscribed(p) ==
    FnsOf(SelectSeq(subs, LAMBDA s : s.pair = p /\ s.live /\ ~s.gone))
\* the subscriptions made on canceled tokens, in the order of the calls
Empties == SelectSeq(subs, LAMBDA s : ~s.live)

\* C1: a pair's reason changes at most once, from absent to present, and is
\* never replaced or reverted afterwards; every cancel invocation after the
\* first (direct, re-entrant from a listener, or from a parent) is ignored:
\* it leaves the reason and what the first invocation committed untouched.
C1_ReasonCommittedOnce ==
    [][\A p \in Pairs :
         /\ ~called[p] => ~Truthy(data[p].reason)
         /\ called[p] =>
              /\ Truthy(data[p].reason)
              /\ called'[p]
              /\ data'[p].reason = data[p].reason
              /\ fired'[p].arg = fired[p].arg
              /\ fired'[p].batch = fired[p].batch]_vars

\* a listener of a pair that is being notified has called that pair's cancel
\* again, with another reason
C1_Witness ==
    \E p \in Pairs :
        /\ OnStack(p)
        /\ fired[p].again
        /\ Truthy(fired[p].late)
        /\ fired[p].late # data[p].reason

\* C2: when the first cancel invocation on a pair passes a reason r, the
\* token is canceled and throwIfCanceled throws exactly r; before any cancel
\* isCanceled is false and throwIfCanceled returns normally.
C2_FirstReasonIsThrown ==
    \A p \in Pairs :
        IF fired[p].set
        THEN Truthy(fired[p].arg) =>
                 isCanceled(p) /\ throwIfCanceled(p) = fired[p].arg
        ELSE ~isCanceled(p) /\ throwIfCanceled(p) = Null

\* user code's cancel(r) was the first on a pair and has returned
C2_Witness ==
    \E p \in Pairs :
        /\ Returned(p)
        /\ fired[p].by = 0
        /\ fired[p].arg \in Reasons
        /\ throwIfCanceled(p) = fired[p].arg

\* C3: the first cancel of a pair invokes the listener entries subscribed
\* and not unsubscribed before it, each exactly once, in subscription order,
\* with the committed reason, all of them before cancel returns; no entry is
\* invoked again later, whatever further cancel calls are made.
C3_BatchNotifiedOnceInOrder ==
    \A p \in Pairs :
        LET n == Notified(p) IN
        /\ IsPrefix(FnsOf(n), fired[p].batch)
        /\ \A i \in 1..Len(n) :
              /\ n[i].reason = data[p].reason
              /\ Truthy(fired[p].arg) => n[i].reason = fired[p].arg
        /\ fired[p].set => fired[p].batch = Subscribed(p)
        /\ Returned(p) => FnsOf(n) = fired[p].batch

\* a pair with two listener entries was canceled, and canceled a second time
C3_Witness ==
    \E p \in Pairs :
        /\ Returned(p)
        /\ fired[p].again
        /\ Len(fired[p].batch) >= 2
        /\ FnsOf(Notified(p)) = fired[p].batch

\* C4: subscribe on a canceled token invokes the listener exactly once, with
\* the committed reason, before the call returns; the listener is not added
\* to the listeners sequence, and the subscription's unsubscribe changes
\* nothing.
C4_SubscribeAfterCancel ==
    /\ [](/\ Len(Empties) = Len(Immediate)
          /\ \A j \in 1..Len(Empties) :
                /\ Immediate[j].pair = Empties[j].pair
                /\ Immediate[j].fn = Empties[j].fn
                /\ Immediate[j].reason = data[Empties[j].pair].reason
                /\ Empties[j].held => Immediate[j].out # "entered")
    /\ [][/\ \A p \in Pairs :
                Len(Immediate') > Len(Immediate) /\ Last(Immediate').pair = p
                    => data'[p].listeners = data[p].listeners
          /\ \A i \in 1..Len(subs) :
                ~subs[i].live /\ subs'[i].used # subs[i].used
                    => /\ data' = data /\ called' = called /\ stack' = stack
                       /\ timers' = timers /\ log' = log]_vars

\* a listener being notified subscribed another listener to the token that is
\* notifying it, got the subscription back and called its unsubscribe
C4_Witness ==
    \E i \in 1..Len(subs) :
        /\ ~subs[i].live
        /\ subs[i].own = "user"
        /\ subs[i].fn.kind = "user"
        /\ subs[i].used > 0
        /\ OnStack(subs[i].pair)

\* the k-th invocation of the run was a user listener that threw
Threw(k) == k <= Len(log) /\ log[k].fn.kind = "user" /\ log[k].out = "threw"
\* how often value v occurs in sequence q
Count(q, v) == Cardinality({i \in 1..Len(q) : q[i] = v})
\* the position in pair p's batch of the k-th invocation of the run
Position(p, k) ==
    Cardinality({j \in 1..k : log[j].pair = p /\ log[j].via = "cancel"})

\* C5 as stated: once a subscription's unsubscribe has returned before the
\* pair's cancellation commits, its listener is never invoked by that
\* cancellation, and the other listeners are notified as before.
C5_UnsubscribedNeverInvoked ==
    \A i \in 1..Len(subs) :
        subs[i].early =>
            /\ \A k \in 1..Len(log) :
                  ~(log[k].pair = subs[i].pair /\ log[k].fn = subs[i].fn
                    /\ log[k].via = "cancel")
            /\ Returned(subs[i].pair) =>
                  Without(FnsOf(Notified(subs[i].pair)), subs[i].fn)
                      = Without(Subscribed(subs[i].pair), subs[i].fn)

\* C5 as amended: if a subscription's unsubscribe returns before the pair's
\* cancellation commits and its listener is not subscribed to that token
\* again afterwards, the listener is never invoked by that token; every entry
\* of another listener, subscribed and not unsubscribed, is still invoked
\* exactly once, in the original relative order.
C5_UnsubscribedNotInvokedUnlessResubscribed ==
    \A i \in 1..Len(subs) :
        subs[i].early =>
            /\ (\A j \in 1..Len(subs) :
                    subs[j].pair = subs[i].pair /\ subs[j].fn = subs[i].fn
                        => subs[j].gone)
                  => \A k \in 1..Len(log) :
                        ~(log[k].pair = subs[i].pair /\ log[k].fn = subs[i].fn)
            /\ Returned(subs[i].pair) =>
                  Without(FnsOf(Notified(subs[i].pair)), subs[i].fn)
                      = Without(Subscribed(subs[i].pair), subs[i].fn)

\* a listener was unsubscribed and not subscribed again, the pair was then
\* canceled and has notified another listener
C5_Witness ==
    \E i \in 1..Len(subs) :
        /\ subs[i].early
        /\ \A j \in 1..Len(subs) :
              subs[j].pair = subs[i].pair /\ subs[j].fn = subs[i].fn => subs[j].gone
        /\ Returned(subs[i].pair)
        /\ Len(Notified(subs[i].pair)) >= 1

\* pair c was created with pair p's token among its parents
IsChild(c, p) == \E i \in 1..Len(parents[c]) : parents[c][i] = p
\* pair c descends from pair p (a parent is always older than its child)
RECURSIVE Descends(_, _)
Descends(c, p) ==
    \/ IsChild(c, p)
    \/ \E q \in (p + 1)..(c - 1) : IsChild(c, q) /\ Descends(q, p)
\* pair c's cancel was first run by the cascade that pair p's cancel started
RECURSIVE TriggeredBy(_, _)
TriggeredBy(c, p) ==
    /\ fired[c].set
    /\ fired[c].by # 0
    /\ fired[c].by = p \/ TriggeredBy(fired[c].by, p)

\* C6: when the first cancel of a pair has returned, every pair created from
\* its token, and every descendant, is canceled; those the cascade canceled
\* hold the parent's very reason and have notified their own listeners with
\* it.
C6_DescendantsCanceledWithParent ==
    \A p \in Pairs : \A c \in Pairs :
        Returned(p) /\ Descends(c, p) =>
            /\ isCanceled(c)
            /\ TriggeredBy(c, p) =>
                  /\ data[c].reason = data[p].reason
                  /\ Returned(c)
                  /\ FnsOf(Notified(c)) = fired[c].batch
                  /\ \A i \in 1..Len(Notified(c)) :
                        Notified(c)[i].reason = data[p].reason

\* the subscriptions create made for pair c on parents already canceled
DeadLinks(c) ==
    {i \in 1..Len(subs) :
        subs[i].own = "create" /\ subs[i].fn = CancelOf(c) /\ ~subs[i].live}

\* C7: a pair created with an already-canceled parent is canceled when create
\* returns, with the reason of such a parent (the first one in the argument
\* list), and a listener subscribed to it later is invoked at once with that
\* reason.
C7_BornCanceled ==
    \A c \in Pairs :
        LET dead == DeadLinks(c) IN
        dead # {} =>
            LET first == CHOOSE i \in dead : \A j \in dead : i <= j
            IN /\ Truthy(born[c])
               /\ born[c] = data[subs[first].pair].reason
               /\ isCanceled(c)
               /\ throwIfCanceled(c) = born[c]
               /\ fired[c].by = subs[first].pair
               /\ \A k \in 1..Len(log) :
                     log[k].pair = c => log[k].via = "subscribe" /\ log[k].reason = born[c]

\* a user listener was subscribed to a pair born canceled, and invoked
C7_Witness ==
    \E c \in Pairs :
        /\ DeadLinks(c) # {}
        /\ \E k \in 1..Len(log) :
              /\ log[k].pair = c
              /\ log[k].fn.kind = "user"
              /\ log[k].reason = born[c]
              /\ log[k].out = "returned"

\* C8: a listener that throws does not make cancel or subscribe fail, does
\* not change the pair's reason or listeners, and does not stop the loop:
\* every listener after it in the batch is invoked once, with the reason.
C8_ThrowingListenerIsolated ==
    /\ [](/\ escaped = 0
          /\ \A k \in 1..Len(log) :
                Threw(k) /\ log[k].via = "cancel" /\ Returned(log[k].pair) =>
                    LET p == log[k].pair
                        n == Notified(p)
                    IN /\ Len(n) = Len(fired[p].batch)
                       /\ \A m \in (Position(p, k) + 1)..Len(n) :
                             /\ n[m].fn = fired[p].batch[m]
                             /\ n[m].reason = data[p].reason)
    /\ [][\A k \in 1..Len(log) :
             ~Threw(k) /\ Threw(k)' =>
                 /\ data' = data
                 /\ called' = called
                 /\ escaped' = escaped
                 /\ stack' = Pop(stack)]_vars

\* the first listener of a batch threw, cancel returned and the listener
\* after it was invoked
C8_Witness ==
    \E k \in 1..Len(log) :
        /\ Threw(k)
        /\ log[k].via = "cancel"
        /\ Returned(log[k].pair)
        /\ Position(log[k].pair, k) < Len(Notified(log[k].pair))

\* invocations a run can make
LogIds == 1..(2 * FairOps + 2)

\* C9: an error thrown by a listener is queued as a timer exactly once, is
\* re-thrown by that timer, with the same value, only when the call stack
\* is empty, and is re-thrown eventually.
C9_ThrownErrorRaisedLater ==
    /\ [](/\ escaped = 0
          /\ \A k \in 1..Len(log) :
                Count(timers \o raised, Thrown(k)) = IF Threw(k) THEN 1 ELSE 0)
    /\ [][\A k \in 1..Len(log) :
             Count(raised', Thrown(k)) > Count(raised, Thrown(k)) =>
                 stack = <<>> /\ stack' = <<>> /\ log' = log]_vars
    /\ \A k \in LogIds : Threw(k) ~> (Count(raised, Thrown(k)) = 1)

\* a listener of a parent threw, the cascade into the child went on, and
\* the error was re-thrown afterwards
C9_Witness ==
    \E k \in 1..Len(log) :
        /\ Threw(k)
        /\ Count(raised, Thrown(k)) = 1
        /\ \E m \in (k + 1)..Len(log) : log[m].pair # log[k].pair

\* C10: a non-callable listener never makes subscribe or cancel fail:
\* subscribe returns its subscription, on a pending token and on a canceled
\* one, and a cancel whose batch holds a non-callable returns after
\* invoking every listener of the batch.
C10_NonCallableTolerated ==
    /\ escaped = 0
    /\ \A i \in 1..Len(subs) :
          subs[i].fn = Garbage => subs[i].held
    /\ \A p \in Pairs :
          Count(fired[p].batch, Garbage) > 0 /\ Returned(p) =>
              /\ Len(Notified(p)) = Len(fired[p].batch)
              /\ \A m \in 1..Len(fired[p].batch) :
                    fired[p].batch[m].kind = "user" =>
                        /\ Notified(p)[m].fn = fired[p].batch[m]
                        /\ Notified(p)[m].out # "entered"

\* a non-callable was subscribed before a function, cancel notified both,
\* and a non-callable was subscribed again after the cancellation
C10_Witness ==
    \E p \in Pairs :
        /\ Returned(p)
        /\ \E m \in 2..Len(fired[p].batch) :
              /\ fired[p].batch[m - 1] = Garbage
              /\ fired[p].batch[m].kind = "user"
              /\ Len(Notified(p)) >= m
        /\ \E i \in 1..Len(subs) :
              subs[i].pair = p /\ subs[i].fn = Garbage /\ ~subs[i].live /\ subs[i].held

\* C11: a non-callable listener handed to invokeListener has no effect at
\* all: nothing is thrown synchronously, and no error is queued as a timer
\* or re-thrown by one because of it.
C11_NonCallableHasNoEffect ==
    /\ escaped = 0
    /\ \A k \in 1..Len(log) :
          log[k].fn = Garbage => Count(timers \o raised, TypeError(k)) = 0

\* C12: calling unsubscribe on a subscription it was already called on
\* leaves every listeners sequence as it is, whatever was subscribed or
\* unsubscribed in between.
C12_SecondUnsubscribeIsNoOp ==
    [][\A i \in 1..Len(subs) :
          subs[i].used >= 1 /\ subs'[i].used > subs[i].used => data' = data]_vars

\* C13: the token of the pair made at module load is never canceled: its
\* cancel is never run, isCanceled is false, throwIfCanceled returns, every
\* subscribe on it takes the pending branch, and no listener subscribed to
\* it is ever invoked, whatever is done to it and to the pairs created from
\* it.
C13_EmptyTokenNeverCanceled ==
    /\ ~called[EmptyPair]
    /\ ~fired[EmptyPair].set
    /\ ~isCanceled(EmptyPair)
    /\ throwIfCanceled(EmptyPair) = Null
    /\ \A i \in 1..Len(subs) : subs[i].pair = EmptyPair => subs[i].live
    /\ \A k \in 1..Len(log) : log[k].pair # EmptyPair

\* a pair created with emptyToken as a parent was canceled, with a user
\* listener subscribed to emptyToken
C13_Witness ==
    /\ \E c \in Pairs : IsChild(c, EmptyPair) /\ Returned(c)
    /\ \E i \in 1..Len(subs) :
          subs[i].pair = EmptyPair /\ subs[i].fn.kind = "user" /\ subs[i].held

\* C14: when the first cancel invocation on a pair passes nothing or a
\* falsy value, the default error allocated by that cancel is committed: the
\* token is canceled, throwIfCanceled throws that default and every listener
\* of the batch receives it; so a pair whose cancel has run is canceled,
\* whatever was passed.
C14_DefaultReasonCommitted ==
    \A p \in Pairs :
        fired[p].set =>
            /\ isCanceled(p)
            /\ ~Truthy(fired[p].arg) =>
                  /\ data[p].reason = NewError(p)
                  /\ Truthy(NewError(p))
                  /\ throwIfCanceled(p) = NewError(p)
                  /\ \A i \in 1..Len(Notified(p)) :
                        Notified(p)[i].reason = NewError(p)
                  /\ Returned(p) => FnsOf(Notified(p)) = fired[p].batch

\* user code called cancel(null) on a parent; its child was canceled by the
\* cascade and the child's listener received the parent's default reason
C14_Witness ==
    \E p \in Pairs : \E c \in Pairs :
        /\ IsChild(c, p)
        /\ Returned(p)
        /\ fired[p].by = 0
        /\ fired[p].arg = Null
        /\ data[c].reason = NewError(p)
        /\ \E k \in 1..Len(log) :
              /\ log[k].pair = c
              /\ log[k].fn.kind = "user"
              /\ log[k].reason = NewError(p)
              /\ log[k].out = "returned"

\* C15: a pair created from parent tokens stays one-shot, however many
\* parents it has and in whatever order they fire: its listeners are each
\* invoked once, with the reason its first trigger (its own cancel, or the
\* parent that fired first) committed, and a parent firing after that
\* changes nothing in it and invokes none of its listeners.
C15_ChildOneShot ==
    /\ [](\A c \in Pairs :
             parents[c] # <<>> =>
                 /\ IsPrefix(FnsOf(Notified(c)), fired[c].batch)
                 /\ \A i \in 1..Len(Notified(c)) :
                       Notified(c)[i].reason = data[c].reason
                 /\ Returned(c) => FnsOf(Notified(c)) = fired[c].batch
                 /\ fired[c].set => data[c].reason = Or(fired[c].arg, NewError(c))
                 /\ fired[c].set /\ fired[c].by # 0 =>
                       data[c].reason = data[fired[c].by].reason)
    /\ [][\A c \in Pairs :
             parents[c] # <<>> /\ called[c] =>
                 /\ data'[c].reason = data[c].reason
                 /\ fired'[c].batch = fired[c].batch
                 /\ fired'[c].by = fired[c].by
                 /\ Len(log') > Len(log) /\ Last(log').fn = CancelOf(c) =>
                       /\ data'[c] = data[c]
                       /\ Len(log') = Len(log) + 1
                       /\ Len(stack') = Len(stack)]_vars

\* two children of one source are the parents of a pair with a listener; the
\* source was canceled, the first child canceled the pair and notified its
\* listener, and the second child's trigger came after that
C15_Witness ==
    \E c \in Pairs : \E g \in Pairs :
        /\ Len(parents[c]) = 2
        /\ parents[c][1] # parents[c][2]
        /\ IsChild(parents[c][1], g)
        /\ IsChild(parents[c][2], g)
        /\ Returned(g)
        /\ Returned(c)
        /\ fired[c].again
        /\ data[c].reason = data[g].reason
        /\ Len(Notified(c)) = 1
        /\ Notified(c)[1].fn.kind = "user"

\* the invocation that first called pair c's cancel function as a listener
Trigger(c) ==
    CHOOSE k \in 1..Len(log) :
        log[k].fn = CancelOf(c) /\ \A j \in 1..(k - 1) : log[j].fn # CancelOf(c)
\* the pair that pair p's loop called directly to reach pair d
RECURSIVE Root(_, _)
Root(d, p) == IF fired[d].by = p THEN d ELSE Root(fired[d].by, p)
\* pair d's cancel was first run by a notification loop, inside the cascade
\* of loops that pair p's loop started
RECURSIVE Cascaded(_, _)
Cascaded(d, p) ==
    /\ fired[d].set
    /\ fired[d].by # 0
    /\ log[Trigger(d)].via = "cancel"
    /\ IF fired[d].by = p THEN TRUE ELSE Cascaded(fired[d].by, p)
\* the invocations made by pair p's cancel, as positions in the log
Turns(p) == {k \in 1..Len(log) : log[k].pair = p /\ log[k].via = "cancel"}

\* C16: a cascade is depth-first and synchronous: once pair p's loop has
\* called a child's cancel, the child's reason is committed and the
\* listeners of the child and of every pair canceled below it are all
\* invoked, and have returned, before p's loop invokes its next listener and
\* before p's cancel returns; none of them is invoked before that call.
C16_CascadeDepthFirst ==
    \A p \in Pairs : \A d \in Pairs :
        Cascaded(d, p) =>
            LET j == Trigger(Root(d, p)) IN
            log[j].pair = p =>
                /\ isCanceled(d)
                /\ data[d].reason = data[p].reason
                /\ \A k \in Turns(d) : j < k
                /\ (Returned(p) \/ \E m \in Turns(p) : m > j) =>
                      /\ Returned(d)
                      /\ FnsOf(Notified(d)) = fired[d].batch
                      /\ \A k \in Turns(d) :
                            /\ log[k].out # "entered"
                            /\ \A m \in Turns(p) : m > j => k < m

\* a source with listeners [A, its child's cancel, B] was canceled: A ran,
\* the child was canceled and its listener ran, then B ran, and the
\* source's cancel returned
C16_Witness ==
    \E p \in Pairs : \E c \in Pairs :
        /\ fired[p].batch = <<Fn(1), CancelOf(c), Fn(2)>>
        /\ Returned(p)
        /\ FnsOf(Notified(p)) = fired[p].batch
        /\ fired[c].by = p
        /\ Len(fired[c].batch) >= 1
        /\ FnsOf(Notified(c)) = fired[c].batch

\* the elements of sequence q
Range(q) == {q[i] : i \in 1..Len(q)}

\* C17 as stated: once a pair's cancel call has returned, its listeners
\* sequence is empty.
C17_ListenersClearedAfterCancel ==
    \A p \in Pairs : Returned(p) => data[p].listeners = <<>>

\* C17 as amended: cancellation does not clear the listeners sequence: the
\* step that commits the reason leaves it as it is, and from then on it
\* holds the entries of the notified batch, in their order, except those of
\* listeners unsubscribed since, which is the only way it changes; the
\* retained entries are not invoked again.
C17_ListenersKeptAfterCancel ==
    /\ [](\A p \in Pairs :
             fired[p].set =>
                 /\ data[p].listeners =
                        SelectSeq(fired[p].batch,
                                  LAMBDA l : l \in Range(data[p].listeners))
                 /\ IsPrefix(FnsOf(Notified(p)), fired[p].batch))
    /\ [][\A p \in Pairs :
             /\ ~called[p] /\ called'[p] =>
                   data'[p].listeners = data[p].listeners
             /\ called[p] /\ data'[p].listeners # data[p].listeners =>
                   \E i \in 1..Len(subs) :
                       /\ subs'[i].used > subs[i].used
                       /\ subs[i].pair = p
                       /\ subs[i].live
                       /\ data'[p].listeners =
                              Without(data[p].listeners, subs[i].fn)]_vars

\* a pair with two listeners was canceled; after its cancel returned one of
\* the two subscriptions was unsubscribed, and the other listener is still
\* in the listeners sequence
C17_Witness ==
    \E p \in Pairs :
        /\ Returned(p)
        /\ Len(fired[p].batch) = 2
        /\ FnsOf(Notified(p)) = fired[p].batch
        /\ Len(data[p].listeners) = 1

\* C18: the batch a cancel notifies is the listeners sequence as it was when
\* the reason was committed: an unsubscribe called by a listener of the
\* running batch changes nothing in the loop, and the listener it names,
\* like every other of the batch, is still invoked exactly once, with the
\* reason, before cancel returns.
C18_BatchIsSnapshot ==
    /\ [](\A i \in 1..Len(subs) :
             LET k == subs[i].by
                 p == subs[i].pair
             IN (/\ k > 0 /\ subs[i].live
                 /\ log[k].pair = p /\ log[k].via = "cancel"
                 /\ Count(fired[p].batch, subs[i].fn) > 0) =>
                    /\ IsPrefix(FnsOf(Notified(p)), fired[p].batch)
                    /\ \A m \in 1..Len(Notified(p)) :
                          Notified(p)[m].reason = data[p].reason
                    /\ Returned(p) => FnsOf(Notified(p)) = fired[p].batch)
    /\ [][\A i \in 1..Len(subs) :
             subs'[i].used > subs[i].used /\ Truthy(data[subs[i].pair].reason) =>
                 stack' = stack /\ log' = log /\ fired' = fired]_vars

\* the first listener of a batch of two, while it was being notified, called
\* unsubscribe on the subscription of the second; the second was invoked
\* after that, and cancel returned
C18_Witness ==
    \E i \in 1..Len(subs) :
        LET k == subs[i].by
            p == subs[i].pair
        IN /\ k > 0
           /\ subs[i].live
           /\ log[k].pair = p
           /\ log[k].via = "cancel"
           /\ log[k].fn # subs[i].fn
           /\ Count(data[p].listeners, subs[i].fn) = 0
           /\ Returned(p)
           /\ \E m \in (k + 1)..Len(log) :
                 /\ log[m].pair = p
                 /\ log[m].via = "cancel"
                 /\ log[m].fn = subs[i].fn
                 /\ log[m].out = "returned"

\* C19: unsubscribe on a pending token removes, by identity, every entry
\* equal to the subscription's listener, however many times the listener
\* was subscribed: the listeners sequence afterwards has no entry for it and
\* keeps the other entries in their order, no other pair is touched, and
\* unless the listener is subscribed again a later cancel does not invoke
\* it.
C19_UnsubscribeRemovesEveryEntry ==
    /\ [][\A i \in 1..Len(subs) :
             LET p == subs[i].pair IN
             (/\ subs'[i].used > subs[i].used
              /\ subs[i].live
              /\ ~Truthy(data[p].reason)) =>
                 /\ Count(data'[p].listeners, subs[i].fn) = 0
                 /\ data'[p].listeners = Without(data[p].listeners, subs[i].fn)
                 /\ data'[p].reason = data[p].reason
                 /\ \A q \in Pairs \ {p} : data'[q] = data[q]
                 /\ \A j \in 1..Len(subs) :
                       subs[j].pair = p /\ subs[j].fn = subs[i].fn /\ subs[j].live
                           => subs'[j].gone]_vars
    /\ [](\A p \in Pairs : \A l \in Range(FnsOf(subs)) :
             (\A j \in 1..Len(subs) :
                  subs[j].pair = p /\ subs[j].fn = l => subs[j].live /\ subs[j].gone)
                 => /\ Count(data[p].listeners, l) = 0
                    /\ Count(FnsOf(Notified(p)), l) = 0)

\* a listener was subscribed twice and another listener once; one of the
\* two subscriptions was unsubscribed, the token was then canceled and
\* notified the other listener only
C19_Witness ==
    \E i \in 1..Len(subs) : \E j \in 1..Len(subs) :
        /\ i # j
        /\ subs[i].pair = subs[j].pair
        /\ subs[i].fn = subs[j].fn
        /\ subs[i].live /\ subs[j].live
        /\ subs[i].used = 1 /\ subs[j].used = 0
        /\ subs[i].gone /\ subs[j].gone
        /\ Returned(subs[i].pair)
        /\ Len(Notified(subs[i].pair)) = 1
        /\ Notified(subs[i].pair)[1].fn # subs[i].fn

\* user code subscribed pair q's cancel function to pair x's token
UserLinked(q, x) ==
    \E i \in 1..Len(subs) :
        subs[i].own = "user" /\ subs[i].pair = x /\ subs[i].fn = CancelOf(q)
\* some pair's cancel callback is run in this step
SomeCancelRuns == \E q \in Pairs : ~called[q] /\ called'[q]

\* C20 as stated: cancellation propagates only downwards: a pair whose
\* cancel is run by another pair's notification descends from that pair, so
\* canceling a pair never changes the reason of a parent, a sibling or any
\* pair not descended from it, and it changes no listeners sequence.
C20_PropagatesOnlyDownwards ==
    /\ [](\A q \in Pairs :
             fired[q].set /\ fired[q].by # 0 => Descends(q, fired[q].by))
    /\ [][SomeCancelRuns =>
             \A q \in Pairs : data'[q].listeners = data[q].listeners]_vars

\* C20 as amended: a pair's cancel is run by another pair's notification
\* only if the pair was created from that pair's token or user code
\* subscribed its cancel function to that token; without such a user-made
\* link, canceling a pair changes the reason of its descendants only; and no
\* cancel changes a listeners sequence.
C20_PropagatesAlongLinksOnly ==
    /\ [](\A q \in Pairs :
             fired[q].set /\ fired[q].by # 0 =>
                 IsChild(q, fired[q].by) \/ UserLinked(q, fired[q].by))
    /\ [](\A q \in Pairs : \A x \in Pairs :
             TriggeredBy(q, x) /\ ~Descends(q, x) =>
                 \E a \in Pairs : \E b \in Pairs : UserLinked(a, b))
    /\ [][SomeCancelRuns =>
             \A q \in Pairs : data'[q].listeners = data[q].listeners]_vars

\* a source has two children; user code canceled one of them, which notified
\* its listener, and the source and the other child are still pending with
\* their listeners as they were
C20_Witness ==
    \E p \in Pairs : \E c \in Pairs : \E s \in Pairs :
        /\ c # s
        /\ IsChild(c, p) /\ IsChild(s, p)
        /\ Returned(c)
        /\ fired[c].by = 0
        /\ Len(Notified(c)) >= 1
        /\ ~isCanceled(p) /\ ~isCanceled(s)
        /\ ~called[p] /\ ~called[s]
        /\ data[p].listeners = <<CancelOf(c), CancelOf(s)>>

=============================================================================
